---- MODULE Spec2Model ----
(***************************************************************************)
(* Model of src/server.js: an Express API over one Mongoose collection of  *)
(* Paciente documents with embedded radiografias.                          *)
(*                                                                         *)
(* Handlers are asynchronous: each `await` on the store is a point where   *)
(* other requests run.  A handler is one action per stretch of code        *)
(* between awaits, and the store operation itself is atomic.  A handler    *)
(* suspended at its await occupies a slot of req.                          *)
(*                                                                         *)
(* What the Mongoose calls of the source do:                               *)
(*   new Paciente(body)   applies the schema's setters and defaults and    *)
(*                        assigns a fresh _id                              *)
(*   save() of a new doc  validates it against the schema, and only then   *)
(*                        inserts it; the unique index on idPaciente       *)
(*                        rejects a duplicate with error code 11000        *)
(*   save() of a loaded   sends an update that $sets the changed paths     *)
(*   doc                  only; __v changes only when an array is          *)
(*                        reshaped, which no handler does                  *)
(*   findById, findOne    cast the filter first: a value for _id that is   *)
(*                        not 24 hex digits throws CastError               *)
(*                                                                         *)
(* Strings are modelled by what the code does with them:                   *)
(*   kind "undefined" : the field is absent from the JSON body             *)
(*   kind "text"      : a string that is not 24 hex digits; n = 0 is the   *)
(*                      empty string, n >= 1 stands for "PAC-00n", "R1"..  *)
(*   kind "hex24"     : the 24-hex-digit rendering of ObjectId number n    *)
(*   pad              : the string is surrounded by whitespace             *)
(* tipo and estado are plain strings, given without surrounding            *)
(* whitespace; "Craneo AP" stands for the accented value of the schema.    *)
(* The timestamp updatedAt of the schema is not modelled: no handler reads *)
(* it.  hist records, for every stored radiograph, whether its estado has  *)
(* ever been 'lista' and whether the creation body left estado and         *)
(* fechaNotificacion out.                                                  *)
(***************************************************************************)
EXTENDS Integers, Sequences, FiniteSets, TLC

VARIABLES pacientes, hist, now, nextId, req, resp

vars == <<pacientes, hist, now, nextId, req, resp>>

\* ---------------------------------------------------------------- bounds
MaxPatients == 2    \* ObjectIds the process hands out
MaxClock == 1       \* clock readings 0..MaxClock

\* handler invocations that can be suspended at an await at the same time
Slots == {1, 2}

\* the slots used when requests are served one after the other
OneSlot == {1}

\* ------------------------------------------------------- string values
Str(k, n, p) == [kind |-> k, n |-> n, pad |-> p]
Undefined == Str("undefined", 0, FALSE)
Empty == Str("text", 0, FALSE)
Txt(n) == Str("text", n, FALSE)
Hex(n) == Str("hex24", n, FALSE)
Pad(s) == [s EXCEPT !.pad = TRUE]

\* schema option trim: true (String.prototype.trim on a supplied string)
Trim(s) == IF s.kind = "undefined" THEN s ELSE [s EXCEPT !.pad = FALSE]

\* the check with only the absent field treated as missing
FalsySoloUndefined(s) == s.kind = "undefined"

\* JavaScript `!x` on a body field: undefined and "" are falsy
Falsy(s) == s.kind = "undefined" \/ (s.kind = "text" /\ s.n = 0 /\ ~s.pad)

\* schema option required: true on a String path, checked after the setters
RequiredOk(s) == s.kind # "undefined" /\ ~(s.kind = "text" /\ s.n = 0 /\ ~s.pad)

\* Mongoose casts a string to ObjectId only if it is 24 hex digits
IsObjectIdString(s) == s.kind = "hex24" /\ ~s.pad

\* ------------------------------------------------------------- schema
NullDate == -1

TipoEnum == {"Torax PA", "Columna Lumbar", "Craneo AP", "Abdomen"}

EstadoEnum == {"pendiente", "lista", "revisada"}

\* a subdocument of radiografias as the constructor builds it from the body:
\* trim on idRadiografia, default 'pendiente', default null
CastRadiografia(r) ==
  [idRadiografia |-> Trim(r.idRadiografia),
   tipo |-> r.tipo,
   estado |-> IF r.estado = "undefined" THEN "pendiente" ELSE r.estado,
   fechaNotificacion |-> r.fechaNotificacion]

\* validators of one subdocument (required, enum)
RadiografiaValida(r) ==
  /\ RequiredOk(r.idRadiografia)
  /\ r.tipo \in TipoEnum
  /\ r.estado \in EstadoEnum

\* new Paciente({ idPaciente, nombre, radiografias: radiografias || [] })
NewPaciente(body, oid, t) ==
  [_id |-> oid,
   idPaciente |-> Trim(body.idPaciente),
   nombre |-> Trim(body.nombre),
   radiografias |-> [i \in 1..Len(body.radiografias) |->
                       CastRadiografia(body.radiografias[i])],
   createdAt |-> t]

\* document validation run by save() before anything is sent to the store
PacienteValido(d) ==
  /\ RequiredOk(d.idPaciente)
  /\ RequiredOk(d.nombre)
  /\ \A i \in 1..Len(d.radiografias) : RadiografiaValida(d.radiografias[i])

\* history kept per stored radiograph, parallel to radiografias: the estado
\* at creation was 'lista'; estado and fechaNotificacion were both omitted
NewHist(body) ==
  [i \in 1..Len(body.radiografias) |->
     [everLista |-> body.radiografias[i].estado = "lista",
      omitido |-> body.radiografias[i].estado = "undefined"
                  /\ body.radiografias[i].fechaNotificacion = NullDate]]

\* --------------------------------------------------------------- inputs
RadInput(id, tipo, estado, fecha) ==
  [idRadiografia |-> id, tipo |-> tipo, estado |-> estado,
   fechaNotificacion |-> fecha]

RadDefault(n) == RadInput(Txt(n), "Abdomen", "undefined", NullDate)

Body(id, nombre, rads) ==
  [idPaciente |-> id, nombre |-> nombre, radiografias |-> rads]

\* request bodies of POST /api/pacientes
PostBodies ==
  { Body(Txt(1), Txt(1), <<RadDefault(1)>>),
    Body(Pad(Txt(1)), Txt(1),
         <<RadInput(Txt(1), "Abdomen", "pendiente", 0), RadDefault(1)>>),
    Body(Txt(2), Txt(1), <<>>),
    Body(Undefined, Txt(1), <<>>),
    Body(Txt(1), Undefined, <<>>),
    Body(Txt(2), Empty, <<RadDefault(1)>>),
    Body(Txt(1), Pad(Empty), <<>>),
    Body(Txt(1), Txt(1), <<RadInput(Txt(1), "Otro", "undefined", NullDate)>>),
    Body(Txt(2), Txt(1), <<RadInput(Undefined, "Abdomen", "undefined", NullDate)>>),
    Body(Txt(2), Txt(1), <<RadInput(Txt(1), "Abdomen", "otro", NullDate)>>) }

NoBody == Body(Undefined, Undefined, <<>>)

\* values of :id and :idRad in the URL, and of estado in the PUT body
IdParams == {Hex(n) : n \in 1..(MaxPatients + 1)} \cup {Txt(1)}

IdRadParams == {Txt(1), Txt(2)}

EstadoInputs == {"pendiente", "lista", "revisada", "otro", "undefined"}

\* ---------------------------------------------------------------- state
NoDoc == [_id |-> 0, idPaciente |-> Undefined, nombre |-> Undefined,
          radiografias |-> <<>>, createdAt |-> 0]

Idle == [pc |-> "idle", doc |-> NoDoc, body |-> NoBody,
         idRad |-> Undefined, estado |-> "undefined"]

NoResp == [op |-> "none", status |-> 0, error |-> "none", data |-> <<>>]

Response(op, status, error, data) ==
  [op |-> op, status |-> status, error |-> error, data |-> data]

Init ==
  /\ pacientes = <<>>
  /\ hist = <<>>
  /\ now = 0
  /\ nextId = 1
  /\ req = [c \in Slots |-> Idle]
  /\ resp = NoResp

\* a new handler invocation takes the lowest free slot
FreeSlot(c) == req[c].pc = "idle" /\ \A d \in Slots : d < c => req[d].pc # "idle"

\* the process clock read by new Date(); it never goes back
Tick ==
  /\ now < MaxClock
  /\ now' = now + 1
  /\ UNCHANGED <<pacientes, hist, nextId, req, resp>>

\* ------------------------------------------------- POST /api/pacientes
\* lines 72-88 up to the insert that save() sends: the field check, the
\* construction of the document (fresh _id, createdAt) and its validation
PostPaciente(c, body) ==
  /\ FreeSlot(c)
  /\ IF Falsy(body.idPaciente) \/ Falsy(body.nombre)
       THEN /\ resp' = Response("post", 400, "faltan_campos", <<>>)
            /\ UNCHANGED <<pacientes, hist, now, nextId, req>>
       ELSE /\ nextId <= MaxPatients
            /\ nextId' = nextId + 1
            /\ LET d == NewPaciente(body, nextId, now) IN
               IF PacienteValido(d)
                 THEN /\ req' = [req EXCEPT ![c] =
                                   [Idle EXCEPT !.pc = "post_saving",
                                                !.doc = d, !.body = body]]
                      /\ UNCHANGED resp
                 ELSE /\ resp' = Response("post", 500, "servidor", <<>>)
                      /\ UNCHANGED req
            /\ UNCHANGED <<pacientes, hist, now>>

\* the insert reaches the store: the unique index on idPaciente rejects a
\* second document with the same value (error code 11000, lines 99-104)
PostInsert(c) ==
  /\ req[c].pc = "post_saving"
  /\ LET d == req[c].doc IN
     IF \E i \in 1..Len(pacientes) : pacientes[i].idPaciente = d.idPaciente
       THEN /\ resp' = Response("post", 400, "duplicado", <<>>)
            /\ UNCHANGED <<pacientes, hist>>
       ELSE /\ pacientes' = Append(pacientes, d)
            /\ hist' = Append(hist, NewHist(req[c].body))
            /\ resp' = Response("post", 201, "none", <<d>>)
  /\ req' = [req EXCEPT ![c] = Idle]
  /\ UNCHANGED <<now, nextId>>

\* -------------------------------------------------- GET /api/pacientes
\* the orderings of sort({ createdAt: 1 })
SortedByCreatedAtAsc(docs) ==
  { s \in [1..Len(docs) -> 1..Len(docs)] :
      /\ \A i, j \in 1..Len(docs) : i # j => s[i] # s[j]
      /\ \A i, j \in 1..Len(docs) :
           i < j => docs[s[i]].createdAt <= docs[s[j]].createdAt }

\* orderings of the collection that sort({ createdAt: -1 }) can produce:
\* every document once, createdAt never increasing; the order of documents
\* with equal createdAt is not fixed by the sort key
SortedByCreatedAtDesc(docs) ==
  { s \in [1..Len(docs) -> 1..Len(docs)] :
      /\ \A i, j \in 1..Len(docs) : i # j => s[i] # s[j]
      /\ \A i, j \in 1..Len(docs) :
           i < j => docs[s[i]].createdAt >= docs[s[j]].createdAt }

\* Paciente.find().sort({ createdAt: -1 }) and the response, lines 115-120
GetPacientes ==
  /\ \E s \in SortedByCreatedAtDesc(pacientes) :
       resp' = Response("list", 200, "none",
                        [i \in 1..Len(pacientes) |-> pacientes[s[i]]])
  /\ UNCHANGED <<pacientes, hist, now, nextId, req>>

\* ---------------------------------------------- GET /api/pacientes/:id
\* documents matched by { $or: [{ _id: id }, { idPaciente: id }] } once the
\* filter is cast: _id compares as ObjectId, idPaciente as string
FindOneMatches(id) ==
  { i \in 1..Len(pacientes) :
      pacientes[i]._id = id.n \/ pacientes[i].idPaciente = id }

\* lines 132-155: casting { _id: id } throws CastError unless id is a
\* 24-hex-digit string, and the catch answers 500
GetPaciente(id) ==
  /\ IF ~IsObjectIdString(id)
       THEN resp' = Response("get", 500, "servidor", <<>>)
       ELSE IF FindOneMatches(id) = {}
         THEN resp' = Response("get", 404, "no_encontrado", <<>>)
         ELSE \E i \in FindOneMatches(id) :
                resp' = Response("get", 200, "none", <<pacientes[i]>>)
  /\ UNCHANGED <<pacientes, hist, now, nextId, req>>

\* ------------------------ PUT /api/pacientes/:id/radiografias/:idRad
\* the check with only a missing estado rejected
EstadoValidoSoloPresente(estado) == estado # "undefined"

\* ['pendiente', 'lista', 'revisada'].includes(estado), line 164
EstadoValido(estado) == estado \in {"pendiente", "lista", "revisada"}

\* Paciente.findById(id) on a castable id: position in the collection, 0 if none
FindById(id) ==
  IF \E i \in 1..Len(pacientes) : pacientes[i]._id = id.n
    THEN CHOOSE i \in 1..Len(pacientes) : pacientes[i]._id = id.n
    ELSE 0

\* paciente.radiografias.find(r => r.idRadiografia === idRad): the first
\* match, 0 if none
FindRadiografia(rads, idRad) ==
  IF \E i \in 1..Len(rads) : rads[i].idRadiografia = idRad
    THEN CHOOSE i \in 1..Len(rads) :
           /\ rads[i].idRadiografia = idRad
           /\ \A j \in 1..(i - 1) : rads[j].idRadiografia # idRad
    ELSE 0

\* lines 192-195 on the loaded document
SetEstado(doc, i, estado, t) ==
  [doc EXCEPT !.radiografias[i].estado = estado,
              !.radiografias[i].fechaNotificacion =
                 IF estado = "lista" THEN t ELSE @]

\* a save that writes the whole loaded document back
SaveDocumentoEntero(stored, loaded, i, estado, t) == SetEstado(loaded, i, estado, t)

\* paciente.save() on a loaded document, line 197: Mongoose sends an update
\* that $sets only the paths whose value differs from the loaded one
\* (radiografias.<i>.estado, radiografias.<i>.fechaNotificacion) to the
\* stored document with that _id; the other paths keep their stored value
Save(stored, loaded, i, estado, t) ==
  LET m == SetEstado(loaded, i, estado, t) IN
  [stored EXCEPT
     !.radiografias[i].estado =
        IF m.radiografias[i].estado # loaded.radiografias[i].estado
          THEN m.radiografias[i].estado ELSE @,
     !.radiografias[i].fechaNotificacion =
        IF m.radiografias[i].fechaNotificacion
             # loaded.radiografias[i].fechaNotificacion
          THEN m.radiografias[i].fechaNotificacion ELSE @]

\* lines 161-178: the estado check, then findById; a :id that is not 24 hex
\* digits makes findById throw CastError, answered 500 by the catch
PutLoad(c, id, idRad, estado) ==
  /\ FreeSlot(c)
  /\ IF ~EstadoValido(estado)
       THEN /\ resp' = Response("put", 400, "estado_invalido", <<>>)
            /\ UNCHANGED req
       ELSE IF ~IsObjectIdString(id)
         THEN /\ resp' = Response("put", 500, "servidor", <<>>)
              /\ UNCHANGED req
         ELSE IF FindById(id) = 0
           THEN /\ resp' = Response("put", 404, "no_encontrado", <<>>)
                /\ UNCHANGED req
           ELSE /\ req' = [req EXCEPT ![c] =
                             [Idle EXCEPT !.pc = "put_loaded",
                                          !.doc = pacientes[FindById(id)],
                                          !.idRad = idRad,
                                          !.estado = estado]]
                /\ UNCHANGED resp
  /\ UNCHANGED <<pacientes, hist, now, nextId>>

\* lines 181-203 on the loaded document, and the update save() sends
PutSave(c) ==
  /\ req[c].pc = "put_loaded"
  /\ LET loaded == req[c].doc
         i == FindRadiografia(loaded.radiografias, req[c].idRad)
         k == FindById(Hex(loaded._id))
     IN
     IF i = 0
       THEN /\ resp' = Response("put", 404, "no_encontrado", <<>>)
            /\ UNCHANGED <<pacientes, hist>>
       ELSE /\ pacientes' = [pacientes EXCEPT ![k] =
                               Save(pacientes[k], loaded, i, req[c].estado, now)]
            /\ hist' = [hist EXCEPT ![k][i].everLista =
                          @ \/ pacientes'[k].radiografias[i].estado = "lista"]
            /\ resp' = Response("put", 200, "none",
                                <<SetEstado(loaded, i, req[c].estado, now)>>)
  /\ req' = [req EXCEPT ![c] = Idle]
  /\ UNCHANGED <<now, nextId>>

\* Requests served one after the other: a handler suspended at its await is
\* interleaved with clock ticks and with the two GET handlers only.
Next ==
  \/ Tick
  \/ \E c \in OneSlot, body \in PostBodies : PostPaciente(c, body)
  \/ \E c \in OneSlot : PostInsert(c)
  \/ GetPacientes
  \/ \E id \in IdParams : GetPaciente(id)
  \/ \E c \in OneSlot, id \in IdParams, idRad \in IdRadParams,
        estado \in EstadoInputs : PutLoad(c, id, idRad, estado)
  \/ \E c \in OneSlot : PutSave(c)

Spec == Init /\ [][Next]_vars

\* Two handlers suspended at the same time: concurrent creations of the same
\* patient and concurrent status updates of its two radiographs.
ConcBodies == { Body(Txt(1), Txt(1), <<RadDefault(1), RadDefault(2)>>) }

ConcIdParams == {Hex(n) : n \in 1..MaxPatients}

ConcEstados == {"lista"}

NextConc ==
  \/ Tick
  \/ \E c \in Slots, body \in ConcBodies : PostPaciente(c, body)
  \/ \E c \in Slots : PostInsert(c)
  \/ \E c \in Slots, id \in ConcIdParams, idRad \in IdRadParams,
        estado \in ConcEstados : PutLoad(c, id, idRad, estado)
  \/ \E c \in Slots : PutSave(c)

SpecConc == Init /\ [][NextConc]_vars

\* ======================================================================
\* Properties
\* ======================================================================
StoreUnchanged == pacientes' = pacientes /\ hist' = hist

\* position in the collection of the document with ObjectId oid
PosOf(oid) == CHOOSE k \in 1..Len(pacientes) : pacientes[k]._id = oid

\* the step answers a POST with this body
PostAnswers(c, body) ==
  \/ PostPaciente(c, body) /\ req' = req
  \/ PostInsert(c) /\ req[c].body = body

\* C1: a POST whose idPaciente equals the idPaciente of a stored patient is
\* answered 400, adds no patient and leaves the stored ones as they are; and
\* no two stored patients share an idPaciente.
C1_DuplicateRejected ==
  /\ [](\A i, j \in 1..Len(pacientes) :
          i # j => pacientes[i].idPaciente # pacientes[j].idPaciente)
  /\ [][\A c \in Slots, body \in PostBodies :
          (/\ PostAnswers(c, body)
           /\ \E i \in 1..Len(pacientes) :
                pacientes[i].idPaciente = body.idPaciente)
          => (resp'.op = "post" /\ resp'.status = 400 /\ StoreUnchanged)]_vars

\* C2: a POST whose body lacks idPaciente or nombre (absent or empty string)
\* is answered 400 for missing fields and the stored patients are the same
\* after it as before.
C2_MissingFields ==
  [][\A c \in OneSlot, body \in PostBodies :
       (/\ PostPaciente(c, body)
        /\ \/ body.idPaciente \in {Undefined, Empty}
           \/ body.nombre \in {Undefined, Empty})
       => (/\ resp'.op = "post" /\ resp'.status = 400
           /\ resp'.error = "faltan_campos"
           /\ StoreUnchanged /\ req' = req)]_vars

C2_Witness ==
  /\ resp.op = "post" /\ resp.status = 400 /\ resp.error = "faltan_campos"
  /\ Len(pacientes) > 0

\* C3: a PUT with estado 'lista' answered 200 leaves every radiograph of the
\* patient that carries the addressed idRadiografia and was created with
\* estado and fechaNotificacion omitted with estado 'lista' and a
\* fechaNotificacion that is set and not earlier than the patient's createdAt.
C3_ListaSetsFecha ==
  [][\A c \in Slots :
       (PutSave(c) /\ req[c].estado = "lista" /\ resp'.status = 200)
       => LET k == PosOf(req[c].doc._id) IN
          \A i \in 1..Len(pacientes[k].radiografias) :
            (/\ pacientes[k].radiografias[i].idRadiografia = req[c].idRad
             /\ hist[k][i].omitido)
            => /\ pacientes'[k].radiografias[i].estado = "lista"
               /\ pacientes'[k].radiografias[i].fechaNotificacion # NullDate
               /\ pacientes'[k].radiografias[i].fechaNotificacion
                    >= pacientes[k].createdAt]_vars

\* C4: a PUT whose estado is not 'pendiente', 'lista' or 'revisada' (a missing
\* estado included) is answered 400 whatever :id and :idRad are, and modifies
\* no stored patient or radiograph.
C4_InvalidEstado ==
  [][\A estado \in EstadoInputs \ {"pendiente", "lista", "revisada"} :
     \A c \in OneSlot, id \in IdParams, idRad \in IdRadParams :
       PutLoad(c, id, idRad, estado)
       => (/\ resp'.op = "put" /\ resp'.status = 400
           /\ resp'.error = "estado_invalido"
           /\ StoreUnchanged /\ req' = req)]_vars

C4_Witness ==
  /\ resp.op = "put" /\ resp.status = 400 /\ resp.error = "estado_invalido"
  /\ \E k \in 1..Len(pacientes) : Len(pacientes[k].radiografias) > 0

\* C5: a PUT with a valid estado is answered 404 and changes nothing in the
\* store when :id is the store-assigned id of no stored patient (well formed,
\* malformed, or some patient's idPaciente), and when the patient exists but
\* has no radiograph with idRadiografia = :idRad.
C5_NotFound ==
  [][\A c \in Slots :
       /\ \A id \in IdParams, idRad \in IdRadParams, estado \in EstadoEnum :
            (/\ PutLoad(c, id, idRad, estado)
             /\ \A k \in 1..Len(pacientes) : id # Hex(pacientes[k]._id))
            => (resp'.op = "put" /\ resp'.status = 404 /\ StoreUnchanged)
       /\ (/\ PutSave(c)
           /\ \A i \in 1..Len(req[c].doc.radiografias) :
                req[c].doc.radiografias[i].idRadiografia # req[c].idRad)
          => (resp'.op = "put" /\ resp'.status = 404 /\ StoreUnchanged)]_vars

\* C6: GET /api/pacientes/:id answers 200 with patient P when :id is P's
\* store-assigned id and when :id is P's idPaciente, and 404 when :id is
\* neither the store-assigned id nor the idPaciente of a stored patient.
C6_FindByEitherId ==
  [][\A id \in IdParams :
       GetPaciente(id)
       => IF \E k \in 1..Len(pacientes) :
               id = Hex(pacientes[k]._id) \/ id = pacientes[k].idPaciente
            THEN /\ resp'.op = "get" /\ resp'.status = 200
                 /\ \E k \in 1..Len(pacientes) :
                      /\ id = Hex(pacientes[k]._id) \/ id = pacientes[k].idPaciente
                      /\ resp'.data = <<pacientes[k]>>
            ELSE resp'.op = "get" /\ resp'.status = 404]_vars

\* C7: a stored radiograph whose estado has never been 'lista' since the
\* patient was created has fechaNotificacion null, and a fechaNotificacion
\* that is set stays set.
C7_FechaOnlyAfterLista ==
  /\ [](\A k \in 1..Len(pacientes) :
          \A i \in 1..Len(pacientes[k].radiografias) :
            ~hist[k][i].everLista
            => pacientes[k].radiografias[i].fechaNotificacion = NullDate)
  /\ [][\A k \in 1..Len(pacientes) :
          \A i \in 1..Len(pacientes[k].radiografias) :
            pacientes[k].radiografias[i].fechaNotificacion # NullDate
            => pacientes'[k].radiografias[i].fechaNotificacion # NullDate]_vars

\* a save by slot c finds another radiograph of the patient changed in the
\* store since slot c loaded the document: the two updates both loaded
\* before either saved
LoadedBeforeOtherSaved(c, j) ==
  /\ req[c].pc = "put_loaded"
  /\ j \in 1..Len(req[c].doc.radiografias)
  /\ j # FindRadiografia(req[c].doc.radiografias, req[c].idRad)
  /\ pacientes[PosOf(req[c].doc._id)].radiografias[j] # req[c].doc.radiografias[j]

\* C8 as stated: when two status updates of two different radiographs of one
\* patient both load before either saves and both are answered 200, the
\* stored patient reflects only one of the two changes: the later save puts
\* the other radiograph back to what it had loaded.
C8_LostUpdate ==
  [][\A c \in Slots : \A j \in 1..Len(req[c].doc.radiografias) :
       (PutSave(c) /\ resp'.status = 200 /\ LoadedBeforeOtherSaved(c, j))
       => pacientes'[PosOf(req[c].doc._id)].radiografias[j]
            = req[c].doc.radiografias[j]]_vars

\* C8 amended: in that interleaving both updates are answered 200 and the
\* stored patient reflects both changes: a save writes only the estado (and
\* for 'lista' the fechaNotificacion) of the addressed radiograph, so every
\* other radiograph keeps what the other request stored, and the addressed
\* radiograph, when no other request changed it since the load, takes the
\* requested estado.
C8_BothUpdatesKept ==
  [][\A c \in Slots :
       (PutSave(c) /\ resp'.status = 200)
       => LET k == PosOf(req[c].doc._id)
              i == FindRadiografia(req[c].doc.radiografias, req[c].idRad)
          IN /\ \A j \in 1..Len(pacientes[k].radiografias) :
                  j # i => pacientes'[k].radiografias[j]
                             = pacientes[k].radiografias[j]
             /\ pacientes[k].radiografias[i] = req[c].doc.radiografias[i]
                => pacientes'[k].radiografias[i].estado = req[c].estado]_vars

\* both updates answered, the stored patient has both changes, and the last
\* response still shows the other radiograph as it was loaded
C8_Witness ==
  /\ \A c \in Slots : req[c].pc = "idle"
  /\ resp.op = "put" /\ resp.status = 200
  /\ \E k \in 1..Len(pacientes) :
       /\ resp.data[1]._id = pacientes[k]._id
       /\ Len(pacientes[k].radiografias) = 2
       /\ \E i, j \in 1..2 :
            /\ i # j
            /\ pacientes[k].radiografias[i].estado # "pendiente"
            /\ pacientes[k].radiografias[j].estado # "pendiente"
            /\ resp.data[1].radiografias[i] = pacientes[k].radiografias[i]
            /\ resp.data[1].radiografias[j].estado = "pendiente"

\* C9: GET /api/pacientes answers 200 with every stored patient exactly once
\* and count = number of stored patients, createdAt never increasing along
\* the list: a patient created at a later time comes before every patient
\* created at an earlier time, whatever status updates happened in between.
C9_ListOrdered ==
  [][GetPacientes
     => /\ resp'.op = "list" /\ resp'.status = 200
        /\ Len(resp'.data) = Len(pacientes)
        /\ \A k \in 1..Len(pacientes) :
             Cardinality({a \in 1..Len(resp'.data) : resp'.data[a] = pacientes[k]}) = 1
        /\ \A a, b \in 1..Len(resp'.data) :
             resp'.data[a].createdAt > resp'.data[b].createdAt => a < b
        /\ \A i, j \in 1..Len(pacientes) :
             (i < j /\ pacientes[i].createdAt # pacientes[j].createdAt)
             => \E a, b \in 1..Len(resp'.data) :
                  a < b /\ resp'.data[a] = pacientes[j]
                        /\ resp'.data[b] = pacientes[i]]_vars

C9_Witness ==
  /\ resp.op = "list" /\ resp.status = 200
  /\ Len(pacientes) = 2 /\ Len(resp.data) = 2
  /\ resp.data[1] = pacientes[2] /\ resp.data[2] = pacientes[1]
  /\ resp.data[1].createdAt > resp.data[2].createdAt
  /\ \E k \in 1..2 : \E i \in 1..Len(pacientes[k].radiografias) :
       pacientes[k].radiografias[i].estado # "pendiente"

\* C10: no stored patient has two radiographs with the same idRadiografia.
C10_UniqueIdRadiografia ==
  \A k \in 1..Len(pacientes) :
    \A i, j \in 1..Len(pacientes[k].radiografias) :
      i # j => pacientes[k].radiografias[i].idRadiografia
                 # pacientes[k].radiografias[j].idRadiografia
====
